---- MODULE Spec2Model ----
(***************************************************************************)
(* Model of tiktok-trends-lite (src/index.js): the /search handler, the    *)
(* SIGI_STATE extractor and normalizeFromItemModule.                       *)
(*                                                                         *)
(* JavaScript values are records tagged by their type.  A string is a      *)
(* sequence of chunks: request text and upstream text carry one character  *)
(* per chunk, literals of the source are one chunk each.                   *)
(***************************************************************************)
EXTENDS Integers, Sequences, FiniteSets, TLC

VARIABLES
    pc,         \* position of the /search handler
    query,      \* req.query of the request
    q,          \* handler local q
    max,        \* handler local max
    country,    \* handler local country
    fetches,    \* the fetchHtml calls in call order: URL, and the state and
                \* outcome of the axios.get promise the handler awaits
    primary,    \* outcome of the first normalizeFromItemModule call
    fallback,   \* outcome of the second normalizeFromItemModule call
    responses,  \* responses sent on res, in order
    sigiIn,     \* argument sigi of a direct normalizeFromItemModule call
    maxIn,      \* argument maxItems of a direct normalizeFromItemModule call
    ret         \* outcome of the direct normalizeFromItemModule call

vars == <<pc, query, q, max, country, fetches, primary, fallback, responses,
          sigiIn, maxIn, ret>>

handlerVars == <<pc, query, q, max, country, fetches, primary, fallback,
                 responses>>

callVars == <<sigiIn, maxIn, ret>>

----------------------------------------------------------------------------
(* JavaScript values *)

Undef == [t |-> "undefined"]

Null == [t |-> "null"]

NaN == [t |-> "nan"]

Bool(b) == [t |-> "boolean", b |-> b]

Num(n) == [t |-> "number", n |-> n]

Str(s) == [t |-> "string", s |-> s]

Obj(f) == [t |-> "object", f |-> f]

Arr(a) == [t |-> "array", a |-> a]

\* an object that is only enumerated (ItemModule), known by its own
\* enumerable values in iteration order
Dict(vals) == [t |-> "dict", vals |-> vals]

EmptyStr == Str(<<>>)

EmptyObj == Obj(<<>>)

Nullish(v) == v.t \in {"undefined", "null"}

\* ToBoolean
Truthy(v) ==
    CASE v.t = "undefined" -> FALSE
      [] v.t = "null"      -> FALSE
      [] v.t = "nan"       -> FALSE
      [] v.t = "boolean"   -> v.b
      [] v.t = "number"    -> v.n # 0
      [] v.t = "string"    -> Len(v.s) > 0
      [] OTHER             -> TRUE

\* a || b
Or(a, b) == IF Truthy(a) THEN a ELSE b

\* a && b
And(a, b) == IF Truthy(a) THEN b ELSE a

\* a ?? b
Coalesce(a, b) == IF Nullish(a) THEN b ELSE a

\* v.k for a v that is neither null nor undefined; an absent property, and
\* any of the property names read here on a primitive or an array, is undefined
Get(v, k) ==
    IF v.t = "object" /\ k \in DOMAIN v.f THEN v.f[k] ELSE Undef

Min(a, b) == IF a < b THEN a ELSE b

Max(a, b) == IF a > b THEN a ELSE b

----------------------------------------------------------------------------
(* Text and number conversions *)

Digits == <<"0", "1", "2", "3", "4", "5", "6", "7", "8", "9">>

IsDigit(c) == \E i \in 1..10 : Digits[i] = c

DigitVal(c) == (CHOOSE i \in 1..10 : Digits[i] = c) - 1

IsSpace(c) == c = " "

RECURSIVE TrimStart(_)
TrimStart(s) ==
    IF s # <<>> /\ IsSpace(Head(s)) THEN TrimStart(Tail(s)) ELSE s

RECURSIVE TrimEnd(_)
TrimEnd(s) ==
    IF s # <<>> /\ IsSpace(s[Len(s)])
    THEN TrimEnd(SubSeq(s, 1, Len(s) - 1))
    ELSE s

\* a handler that forgets to trim
Trim_Missing(s) == s

\* String.prototype.trim
Trim(s) == TrimEnd(TrimStart(s))

RECURSIVE DigitsValue(_, _)
DigitsValue(s, acc) ==
    IF s = <<>> THEN acc ELSE DigitsValue(Tail(s), 10 * acc + DigitVal(Head(s)))

AllDigits(s) == s # <<>> /\ \A i \in 1..Len(s) : IsDigit(s[i])

\* StringToNumber on text made of spaces, signs, digits and letters
StringToNumber(s) ==
    LET t == Trim(s) IN
    IF t = <<>> THEN Num(0)
    ELSE IF AllDigits(t) THEN Num(DigitsValue(t, 0))
    ELSE IF Head(t) = "-" /\ AllDigits(Tail(t)) THEN Num(0 - DigitsValue(Tail(t), 0))
    ELSE IF Head(t) = "+" /\ AllDigits(Tail(t)) THEN Num(DigitsValue(Tail(t), 0))
    ELSE NaN

RECURSIVE NatToChars(_)
NatToChars(n) ==
    IF n < 10 THEN <<Digits[n + 1]>>
    ELSE NatToChars(n \div 10) \o <<Digits[(n % 10) + 1]>>

IntToChars(n) == IF n < 0 THEN <<"-">> \o NatToChars(0 - n) ELSE NatToChars(n)

RECURSIVE ToStringJS(_)
RECURSIVE Join(_)
\* Array.prototype.join(","): null and undefined elements print as nothing
Join(a) ==
    IF a = <<>> THEN <<>>
    ELSE (IF Nullish(Head(a)) THEN <<>> ELSE ToStringJS(Head(a)))
         \o (IF Len(a) > 1 THEN <<",">> \o Join(Tail(a)) ELSE <<>>)

\* ToString, as the template literal and toString() apply it
ToStringJS(v) ==
    CASE v.t = "string"    -> v.s
      [] v.t = "number"    -> IntToChars(v.n)
      [] v.t = "nan"       -> <<"NaN">>
      [] v.t = "boolean"   -> IF v.b THEN <<"true">> ELSE <<"false">>
      [] v.t = "null"      -> <<"null">>
      [] v.t = "undefined" -> <<"undefined">>
      [] v.t = "array"     -> Join(v.a)
      [] OTHER             -> <<"[object Object]">>

\* Number(v)
ToNumber(v) ==
    CASE v.t = "number"    -> v
      [] v.t = "nan"       -> NaN
      [] v.t = "string"    -> StringToNumber(v.s)
      [] v.t = "boolean"   -> IF v.b THEN Num(1) ELSE Num(0)
      [] v.t = "null"      -> Num(0)
      [] v.t = "undefined" -> NaN
      [] v.t = "array"     -> StringToNumber(Join(v.a))
      [] OTHER             -> NaN

Pad2(n) == <<Digits[(n \div 10) + 1], Digits[(n % 10) + 1]>>

Pad4(n) == Pad2(n \div 100) \o Pad2(n % 100)

\* the element of a singleton set; {F(x) : x \in {e}} evaluates e once
TheOne(S) == CHOOSE x \in S : TRUE

\* year, month and day of the day number days since 1970-01-01
CivilFromDays(days) ==
    LET z   == days + 719468
        era == z \div 146097
        doe == z % 146097
        yoe == (doe - doe \div 1460 + doe \div 36524 - doe \div 146096) \div 365
        doy == doe - (365 * yoe + yoe \div 4 - yoe \div 100)
        mp  == (5 * doy + 2) \div 153
        m   == IF mp < 10 THEN mp + 3 ELSE mp - 9
    IN  [y |-> yoe + era * 400 + (IF m <= 2 THEN 1 ELSE 0),
         m |-> m,
         d |-> doy - (153 * mp + 2) \div 5 + 1]

DateTimeText(date, sod) ==
    Pad4(date.y) \o <<"-">> \o Pad2(date.m) \o <<"-">> \o Pad2(date.d) \o <<"T">>
    \o Pad2(sod \div 3600) \o <<":">> \o Pad2((sod % 3600) \div 60)
    \o <<":">> \o Pad2(sod % 60) \o <<".000Z">>

\* new Date(secs * 1000).toISOString() for whole seconds within years 0..9999
ToISOString(secs) ==
    TheOne({TheOne({DateTimeText(date, s % 86400) :
                        date \in {CivilFromDays(s \div 86400)}}) : s \in {secs}})

----------------------------------------------------------------------------
(* normalizeFromItemModule *)

\* the default of the parameter maxItems, and of the request parameter max
DefaultMaxItems == 50

\* the cap the handler puts on the request parameter max
MaxLimit == 100

\* Object.values(v) of a truthy v: the own enumerable values in iteration
\* order; a string yields its characters, a number or boolean nothing
ObjectValues(v) ==
    CASE v.t = "dict"   -> v.vals
      [] v.t = "array"  -> v.a
      [] v.t = "string" -> [i \in 1..Len(v.s) |-> Str(<<v.s[i]>>)]
      [] OTHER          -> <<>>

\* items.slice(0, maxItems): the number of leading items kept
SliceEnd(len, maxItems) ==
    IF maxItems.t = "nan" THEN 0
    ELSE IF maxItems.n < 0 THEN Max(len + maxItems.n, 0)
    ELSE Min(maxItems.n, len)

\* precedence of the two id fields swapped
ItemId_AwemeFirst(it) == Or(Or(Get(it, "aweme_id"), Get(it, "id")), EmptyStr)

ItemId(it) == Or(Or(Get(it, "id"), Get(it, "aweme_id")), EmptyStr)

ItemAuthor(it) ==
    Or(Or(Get(it, "author"),
          And(Get(it, "authorInfo"), Get(Get(it, "authorInfo"), "uniqueId"))),
       EmptyStr)

ItemTitle(it) == Or(Or(Get(it, "desc"), Get(it, "title")), EmptyStr)

ItemLikes(stats) == Coalesce(Coalesce(Get(stats, "diggCount"), Get(stats, "likeCount")), Null)

ItemUrl(it) ==
    Or(Or(Get(it, "shareUrl"), Get(it, "videoUrl")),
       IF Truthy(And(ItemAuthor(it), ItemId(it)))
       THEN Str(<<"https://www.tiktok.com/@">> \o ToStringJS(ItemAuthor(it))
                \o <<"/video/">> \o ToStringJS(ItemId(it)))
       ELSE EmptyStr)

\* the exception the map callback raises on item it, or "none"
ItemError(it) ==
    IF Nullish(it) THEN "TypeError"
    ELSE IF Truthy(Get(it, "createTime")) /\ ToNumber(Get(it, "createTime")).t = "nan"
    THEN "RangeError"
    ELSE IF Get(it, "textExtra").t = "array"
            /\ \E i \in 1..Len(Get(it, "textExtra").a) : Nullish(Get(it, "textExtra").a[i])
    THEN "TypeError"
    ELSE "none"

ItemPublishedAt(it) ==
    IF Truthy(Get(it, "createTime"))
    THEN Str(ToISOString(ToNumber(Get(it, "createTime")).n))
    ELSE Null

HasHashtagName(h) == Truthy(Get(h, "hashtagName"))

ItemHashtags(it) ==
    IF Get(it, "textExtra").t = "array"
    THEN LET kept == SelectSeq(Get(it, "textExtra").a, HasHashtagName)
         IN  Arr([i \in 1..Len(kept) |-> Get(kept[i], "hashtagName")])
    ELSE Arr(<<>>)

\* the record the map callback builds from an item it does not raise on
MapItem(it) ==
    LET stats == Or(Get(it, "stats"), EmptyObj)
        music == Or(Get(it, "music"), EmptyObj)
        video == Or(Get(it, "video"), EmptyObj)
    IN  [id          |-> ItemId(it),
         title       |-> ItemTitle(it),
         author      |-> ItemAuthor(it),
         url         |-> ItemUrl(it),
         cover       |-> Or(Or(Or(Get(video, "cover"), Get(video, "dynamicCover")),
                               Get(video, "originCover")), Null),
         duration    |-> Or(Get(video, "duration"), Null),
         music       |-> [title  |-> Or(Get(music, "title"), Null),
                          author |-> Or(Get(music, "authorName"), Null)],
         stats       |-> [views     |-> Coalesce(Coalesce(Get(stats, "playCount"),
                                                          Get(stats, "playCount")), Null),
                          likes     |-> ItemLikes(stats),
                          comments  |-> Coalesce(Get(stats, "commentCount"), Null),
                          shares    |-> Coalesce(Get(stats, "shareCount"), Null),
                          bookmarks |-> Coalesce(Get(stats, "collectCount"), Null)],
         publishedAt |-> ItemPublishedAt(it),
         hashtags    |-> ItemHashtags(it)]

\* a filter that tests the id instead of the url
HasUrl_TestsId(v) == Truthy(v.id)

HasUrl(v) == Truthy(v.url)

\* items.slice(0, maxItems).map(...).filter(v => v.url), cut being the
\* slice: the list, or the exception that escapes the map callback
MapAndFilter(cut) ==
    LET bad == {i \in 1..Len(cut) : ItemError(cut[i]) # "none"}
    IN  IF bad # {}
        THEN [error |-> ItemError(cut[CHOOSE i \in bad : \A j \in bad : i <= j]),
              list  |-> <<>>]
        ELSE [error |-> "none",
              list  |-> SelectSeq([i \in 1..Len(cut) |-> MapItem(cut[i])], HasUrl)]

\* the guard reads sigi.ItemModule without testing sigi first
NormalizeFromItemModule_NoNullGuard(sigi, maxItems) ==
    IF Nullish(sigi) THEN [error |-> "TypeError", list |-> <<>>]
    ELSE IF ~Truthy(Get(sigi, "ItemModule")) THEN [error |-> "none", list |-> <<>>]
    ELSE LET limit == IF maxItems.t = "undefined" THEN Num(DefaultMaxItems) ELSE maxItems
         IN  TheOne({TheOne({MapAndFilter(cut) :
                                 cut \in {SubSeq(items, 1, SliceEnd(Len(items), limit))}}) :
                         items \in {ObjectValues(Get(sigi, "ItemModule"))}})

\* the filter runs before the slice
NormalizeFromItemModule_FilterFirst(sigi, maxItems) ==
    IF ~Truthy(sigi) \/ ~Truthy(Get(sigi, "ItemModule"))
    THEN [error |-> "none", list |-> <<>>]
    ELSE LET limit == IF maxItems.t = "undefined" THEN Num(DefaultMaxItems) ELSE maxItems
         IN  TheOne({[error |-> all.error,
                      list  |-> SubSeq(all.list, 1, SliceEnd(Len(all.list), limit))] :
                         all \in {MapAndFilter(ObjectValues(Get(sigi, "ItemModule")))}})

\* outcome of normalizeFromItemModule(sigi, maxItems): the list returned, or
\* the exception raised
NormalizeFromItemModule(sigi, maxItems) ==
    IF ~Truthy(sigi) \/ ~Truthy(Get(sigi, "ItemModule"))
    THEN [error |-> "none", list |-> <<>>]
    ELSE LET limit == IF maxItems.t = "undefined" THEN Num(DefaultMaxItems) ELSE maxItems
         IN  TheOne({TheOne({MapAndFilter(cut) :
                                 cut \in {SubSeq(items, 1, SliceEnd(Len(items), limit))}}) :
                         items \in {ObjectValues(Get(sigi, "ItemModule"))}})

----------------------------------------------------------------------------
(* URL builders and the SIGI_STATE extractor *)

LowerCase == <<"a", "b", "c", "d", "e", "f", "g", "h", "i", "j", "k", "l", "m",
               "n", "o", "p", "q", "r", "s", "t", "u", "v", "w", "x", "y", "z">>

UpperCase == <<"A", "B", "C", "D", "E", "F", "G", "H", "I", "J", "K", "L", "M",
               "N", "O", "P", "Q", "R", "S", "T", "U", "V", "W", "X", "Y", "Z">>

ToUpperChar(c) ==
    IF \E i \in 1..26 : LowerCase[i] = c
    THEN UpperCase[CHOOSE i \in 1..26 : LowerCase[i] = c]
    ELSE c

\* String.prototype.toUpperCase
ToUpperCase(s) == [i \in 1..Len(s) |-> ToUpperChar(s[i])]

IsUnreserved(c) ==
    \/ IsDigit(c)
    \/ \E i \in 1..26 : LowerCase[i] = c \/ UpperCase[i] = c
    \/ c \in {"-", "_", ".", "!", "~", "*", "'", "(", ")"}

\* the escape of a reserved character of the request alphabet
PercentEscape(c) ==
    CASE c = " " -> <<"%", "2", "0">>
      [] c = "#" -> <<"%", "2", "3">>
      [] c = "+" -> <<"%", "2", "B">>
      [] OTHER   -> <<"%", "3", "F">>

RECURSIVE EncodeURIComponent(_)
EncodeURIComponent(s) ==
    IF s = <<>> THEN <<>>
    ELSE (IF IsUnreserved(Head(s)) THEN <<Head(s)>> ELSE PercentEscape(Head(s)))
         \o EncodeURIComponent(Tail(s))

LangOf(cty) ==
    IF cty # <<>> /\ ToUpperCase(cty) = <<"B", "R">> THEN <<"pt-BR">> ELSE <<"en">>

BuildSearchUrl(qText, cty) ==
    <<"https://www.tiktok.com/search?q=">> \o EncodeURIComponent(qText)
    \o <<"&lang=">> \o LangOf(cty)

BuildHashtagUrl(qText, cty) ==
    LET clean == Trim(IF qText # <<>> /\ Head(qText) = "#" THEN Tail(qText) ELSE qText)
    IN  <<"https://www.tiktok.com/tag/">> \o EncodeURIComponent(clean)
        \o <<"?lang=">> \o LangOf(cty)

\* A page is [node |-> whether it has a #SIGI_STATE element,
\*            json |-> whether the element's text is a JSON document,
\*            value |-> the value the text denotes].
\* JSON.parse raises on text that is no JSON document; the extractor
\* catches that and returns null.
ExtractSigiState(html) ==
    IF ~html.node THEN Null
    ELSE IF html.json THEN html.value
    ELSE Null

\* Math.min(a, b) of two numbers
MathMin(a, b) ==
    IF a.t = "nan" \/ b.t = "nan" THEN NaN ELSE Num(Min(a.n, b.n))

\* message of the exception normalizeFromItemModule lets escape
ErrorMessage(e) ==
    IF e = "RangeError" THEN Str(<<"Invalid time value">>)
    ELSE Str(<<"Cannot read properties of null">>)

----------------------------------------------------------------------------
(* Inputs *)

\* longest item collection of a page the handler fetches
MaxPageItems == 2

\* longest item collection handed to normalizeFromItemModule directly
MaxLen == 3

SeqsUpTo(S, n) == UNION {[1..k -> S] : k \in 0..n}

Text(s) == Str(s)

\* req.query.q
QueryQ == {Undef, EmptyStr, Text(<<" ", " ">>), Text(<<"g", "a">>),
           Text(<<"#", "g", " ", "a", " ">>)}

\* req.query.max
QueryMax == {Undef, EmptyStr, Text(<<"a", "b">>), Text(<<" ">>), Text(<<"0">>),
             Text(<<"-", "1">>), Text(<<"1">>), Text(<<"2">>),
             Text(<<"1", "0", "0">>), Text(<<"1", "5", "0">>)}

\* req.query.country
QueryCountry == {Undef, Text(<<"b", "r">>), Text(<<"U", "S">>)}

Requests == [q : QueryQ, max : QueryMax, country : QueryCountry]

\* an item with a share link
ItemShared ==
    Obj([id |-> Text(<<"7">>), author |-> Text(<<"x">>), shareUrl |-> Text(<<"u">>),
         createTime |-> Num(1700000000)])

\* an item whose link is built from author and id
ItemBuilt ==
    Obj([aweme_id |-> Text(<<"8">>), authorInfo |-> Obj([uniqueId |-> Text(<<"y">>)]),
         textExtra |-> Arr(<<Obj([hashtagName |-> Text(<<"g">>)]), EmptyObj>>)])

\* an item with no link and nothing to build one from
ItemNoUrl == Obj([id |-> Text(<<"9">>), desc |-> Text(<<"d">>)])

\* an item that is a number
ItemNumber == Num(5)

\* an item whose createTime is text that is no number
ItemBadTime ==
    Obj([id |-> Text(<<"6">>), shareUrl |-> Text(<<"w">>), createTime |-> Text(<<"a">>)])

\* an item whose annotation sequence holds a null entry
ItemNullTag == Obj([id |-> Text(<<"5">>), shareUrl |-> Text(<<"z">>), textExtra |-> Arr(<<Null>>)])

PageItems == {ItemShared, ItemNoUrl, Null, ItemBadTime}

ListItems == {ItemShared, ItemBuilt, ItemNoUrl, ItemNumber, Null, ItemBadTime, ItemNullTag}

StateOf(items) == Obj([ItemModule |-> Dict(items)])

\* parsed states without a usable item collection
BareStates == {Null, Num(7), Arr(<<>>), EmptyObj, Obj([ItemModule |-> Null]),
               Obj([ItemModule |-> Num(3)]), Obj([ItemModule |-> Text(<<"a", "b">>)])}

PageOf(v) == [node |-> TRUE, json |-> TRUE, value |-> v]

PageNoNode == [node |-> FALSE, json |-> FALSE, value |-> Null]

PageBadJson == [node |-> TRUE, json |-> FALSE, value |-> Null]

Pages ==
    {PageNoNode, PageBadJson, PageOf(Null), PageOf(EmptyObj)}
    \cup {PageOf(StateOf(l)) : l \in SeqsUpTo(PageItems, MaxPageItems)}

\* messages of the errors fetchHtml raises
FetchErrors == {Text(<<"timeout of 15000ms exceeded">>),
                Text(<<"Request failed with status code 403">>)}

\* arguments maxItems of a direct call
MaxArgs == {Undef, NaN} \cup {Num(n) : n \in (0 - MaxLen - 1)..(MaxLen + 1)}

Pending == [error |-> "pending", list |-> <<>>]

NoRequest == [q |-> Undef, max |-> Undef, country |-> Undef]

----------------------------------------------------------------------------
(* The /search handler *)

Init ==
    /\ pc = "idle"
    /\ query = NoRequest
    /\ q = EmptyStr
    /\ max = NaN
    /\ country = EmptyStr
    /\ fetches = <<>>
    /\ primary = Pending
    /\ fallback = Pending
    /\ responses = <<>>
    /\ sigiIn = Null
    /\ maxIn = Undef
    /\ ret = Pending

\* fetchHtml(url) up to its await of axios.get
CallFetchHtml(url) ==
    fetches' = Append(fetches, [url |-> url, st |-> "pending", data |-> Null])

\* res.status(code).json(body)
Send(code, body) ==
    responses' = Append(responses, [status |-> code, body |-> body])

\* a catch block that sends no details
Catch_NoDetails(message) ==
    Send(500, [error |-> Text(<<"Falha ao buscar videos">>)])

\* a catch block that swallows the exception
Catch_NoResponse(message) == UNCHANGED responses

\* the catch block
Catch(message) ==
    Send(500, [error   |-> Text(<<"Falha ao buscar videos">>),
               details |-> Or(message, Text(<<"Error">>))])

\* res.json({query, country, total, results})
SendResults(results) ==
    Send(200, [query |-> q, country |-> country,
               total |-> Num(Len(results)), results |-> results])

\* the test of the fallback inverted
IsEmpty_Inverted(results) == Len(results) # 0

\* !results.length
IsEmpty(results) == Len(results) = 0

\* a request arrives: the handler runs to its first await or to the 400
Search(r) ==
    /\ pc = "idle"
    /\ LET qq == Str(Trim(ToStringJS(Or(r.q, EmptyStr))))
           mm == MathMin(ToNumber(Or(r.max, Num(DefaultMaxItems))), Num(MaxLimit))
           cc == Str(ToStringJS(Or(r.country, Text(<<"B", "R">>))))
       IN  /\ query' = r
           /\ q' = qq
           /\ max' = mm
           /\ country' = cc
           /\ IF ~Truthy(qq)
              THEN /\ Send(400, [error |-> Text(<<"Parametro q e obrigatorio">>)])
                   /\ pc' = "done"
                   /\ UNCHANGED fetches
              ELSE /\ CallFetchHtml(BuildSearchUrl(qq.s, cc.s))
                   /\ pc' = "await1"
                   /\ UNCHANGED responses
    /\ UNCHANGED <<primary, fallback, callVars>>

\* axios.get of call i answers with a status in [200, 400): res.data is html
FetchFulfil(i, html) ==
    /\ i \in 1..Len(fetches)
    /\ fetches[i].st = "pending"
    /\ fetches' = [fetches EXCEPT ![i].st = "fulfilled", ![i].data = html]
    /\ UNCHANGED <<pc, query, q, max, country, primary, fallback, responses, callVars>>

\* axios.get of call i times out, fails, or answers with another status
FetchReject(i, message) ==
    /\ i \in 1..Len(fetches)
    /\ fetches[i].st = "pending"
    /\ fetches' = [fetches EXCEPT ![i].st = "rejected", ![i].data = message]
    /\ UNCHANGED <<pc, query, q, max, country, primary, fallback, responses, callVars>>

\* the handler resumes after the first await
Resume1 ==
    /\ pc = "await1"
    /\ fetches[1].st \in {"fulfilled", "rejected"}
    /\ IF fetches[1].st = "rejected"
       THEN /\ Catch(fetches[1].data)
            /\ pc' = "done"
            /\ UNCHANGED <<fetches, primary>>
       ELSE \E results \in {NormalizeFromItemModule(ExtractSigiState(fetches[1].data), max)} :
                /\ primary' = results
                /\ IF results.error # "none"
                   THEN /\ Catch(ErrorMessage(results.error))
                        /\ pc' = "done"
                        /\ UNCHANGED fetches
                   ELSE IF IsEmpty(results.list)
                   THEN /\ CallFetchHtml(BuildHashtagUrl(q.s, country.s))
                        /\ pc' = "await2"
                        /\ UNCHANGED responses
                   ELSE /\ SendResults(results.list)
                        /\ pc' = "done"
                        /\ UNCHANGED fetches
    /\ UNCHANGED <<query, q, max, country, fallback, callVars>>

\* the handler resumes after the second await
Resume2 ==
    /\ pc = "await2"
    /\ fetches[Len(fetches)].st \in {"fulfilled", "rejected"}
    /\ pc' = "done"
    /\ IF fetches[Len(fetches)].st = "rejected"
       THEN /\ Catch(fetches[Len(fetches)].data)
            /\ UNCHANGED fallback
       ELSE \E results \in {NormalizeFromItemModule(
                                   ExtractSigiState(fetches[Len(fetches)].data), max)} :
                /\ fallback' = results
                /\ IF results.error # "none"
                   THEN Catch(ErrorMessage(results.error))
                   ELSE SendResults(results.list)
    /\ UNCHANGED <<query, q, max, country, fetches, primary, callVars>>

FetchCalls == 1..2

Next ==
    \/ \E r \in Requests : Search(r)
    \/ \E i \in FetchCalls, html \in Pages : FetchFulfil(i, html)
    \/ \E i \in FetchCalls, message \in FetchErrors : FetchReject(i, message)
    \/ Resume1
    \/ Resume2

Spec == Init /\ [][Next]_vars

\* the pages of the fair specification: one of each kind of outcome
LivePages ==
    {PageNoNode, PageBadJson, PageOf(EmptyObj)}
    \cup {PageOf(StateOf(<<it>>)) : it \in PageItems}

NextFair ==
    \/ \E r \in Requests : Search(r)
    \/ \E i \in FetchCalls, html \in LivePages : FetchFulfil(i, html)
    \/ \E i \in FetchCalls, message \in FetchErrors : FetchReject(i, message)
    \/ Resume1
    \/ Resume2

\* every issued fetch settles, and the event loop resumes the handler
FairSpec ==
    /\ Init
    /\ [][NextFair]_vars
    /\ WF_vars(\E i \in FetchCalls : (\E html \in LivePages : FetchFulfil(i, html))
                                     \/ (\E message \in FetchErrors : FetchReject(i, message)))
    /\ WF_vars(Resume1)
    /\ WF_vars(Resume2)

----------------------------------------------------------------------------
(* Direct calls of normalizeFromItemModule *)

NormalizeCall ==
    /\ pc = "call"
    /\ ret = Pending
    /\ ret' = NormalizeFromItemModule(sigiIn, maxIn)
    /\ UNCHANGED <<handlerVars, sigiIn, maxIn>>

NextCall == NormalizeCall

InitCallCommon ==
    /\ pc = "call"
    /\ query = NoRequest
    /\ q = EmptyStr
    /\ max = NaN
    /\ country = EmptyStr
    /\ fetches = <<>>
    /\ primary = Pending
    /\ fallback = Pending
    /\ responses = <<>>
    /\ ret = Pending

\* any state, any limit
InitNormalize ==
    /\ InitCallCommon
    /\ sigiIn \in BareStates \cup {StateOf(l) : l \in SeqsUpTo(ListItems, MaxLen)}
    /\ maxIn \in MaxArgs

SpecNormalize == InitNormalize /\ [][NextCall]_vars

\* one item, every combination of the source fields the record is built from
FieldItems ==
    {Obj(f) : f \in
        [id         : {Undef, Num(0), EmptyStr, Text(<<"7">>)},
         aweme_id   : {Undef, Text(<<"8">>)},
         author     : {Undef, EmptyStr, Text(<<"x">>)},
         authorInfo : {Undef, Obj([uniqueId |-> Text(<<"y">>)])},
         desc       : {Undef, Bool(FALSE), Text(<<"d">>)},
         title      : {Undef, Text(<<"t">>)},
         shareUrl   : {Undef, EmptyStr, Text(<<"u">>)},
         videoUrl   : {Undef, Text(<<"v">>)},
         stats      : {Undef, Obj([diggCount |-> Num(0), likeCount |-> Num(9)]),
                       Obj([diggCount |-> Null, likeCount |-> Num(9)]),
                       Obj([likeCount |-> Num(9)]), Obj([diggCount |-> Num(4)])},
         createTime : {Undef, Text(<<"1", "7", "0", "0", "0", "0", "0", "0", "0", "0">>)},
         textExtra  : {Undef, Arr(<<Obj([hashtagName |-> Text(<<"g">>)]), Num(1)>>)}]}

\* a state of one item, the default limit
InitItem ==
    /\ InitCallCommon
    /\ sigiIn \in {StateOf(<<it>>) : it \in FieldItems}
    /\ maxIn = Undef

SpecItem == InitItem /\ [][NextCall]_vars

----------------------------------------------------------------------------
(* Properties of the /search handler (Spec, FairSpec) *)

Responded(code) == pc = "done" /\ Len(responses) = 1 /\ responses[1].status = code

NonEmptyQuery == pc # "idle" /\ Truthy(q)

\* C1: a request with a non-empty query issues at most two fetches, one at a
\* time; the first is the search URL; a second one, to the hashtag URL, is
\* issued exactly when the first returned and its normalized list is empty.
C1_FetchDiscipline ==
    NonEmptyQuery =>
        /\ Len(fetches) \in 1..2
        /\ fetches[1].url = BuildSearchUrl(q.s, country.s)
        /\ Cardinality({i \in 1..Len(fetches) : fetches[i].st = "pending"}) <= 1
        /\ Len(fetches) = 2 =>
               /\ fetches[2].url = BuildHashtagUrl(q.s, country.s)
               /\ fetches[1].st = "fulfilled"
        /\ Len(fetches) = 2 <=> (primary.error = "none" /\ primary.list = <<>>)

C1_Witness ==
    /\ Responded(200)
    /\ Len(fetches) = 2
    /\ fetches[1].url # fetches[2].url
    /\ responses[1].body.total = Num(1)

IsBlank(s) == \A i \in 1..Len(s) : s[i] = " "

\* C2: a request whose q is missing or blank is answered 400 with an error
\* field, and no fetch is made for it.
C2_EmptyQueryRejected ==
    (pc # "idle" /\ (query.q.t = "undefined" \/ IsBlank(query.q.s))) =>
        /\ Responded(400)
        /\ DOMAIN responses[1].body = {"error"}
        /\ fetches = <<>>

C2_Witness == Responded(400) /\ query.q = Text(<<" ", " ">>)

\* C3: a fetch that raises ends the request with one 500 carrying error and
\* details; after a failed first fetch no second fetch is ever made, and a
\* failed second fetch yields no 200.
C3_FetchFailureFatal ==
    \A i \in 1..Len(fetches) :
        fetches[i].st = "rejected" =>
            /\ Len(fetches) = i
            /\ pc = "done" =>
                   /\ Responded(500)
                   /\ DOMAIN responses[1].body = {"error", "details"}
                   /\ responses[1].body.details = fetches[i].data

C3_Witness ==
    /\ Responded(500)
    /\ Len(fetches) = 2
    /\ fetches[2].st = "rejected"
    /\ primary.error = "none"

\* a page with no SIGI_STATE element, unparseable JSON, or no item collection
BarePage(html) ==
    \/ ~html.node
    \/ ~html.json
    \/ html.value.t # "object"
    \/ "ItemModule" \notin DOMAIN html.value.f
    \/ html.value.f.ItemModule.t \in {"null", "undefined"}

\* C4: two successful fetches of pages without usable state end in a 200 with
\* no results and total 0; every 200 has total = length of results, and its
\* results are the fallback's list exactly when the primary list was empty.
C4_MissingStateIsEmpty200 ==
    /\ (/\ pc = "done"
        /\ Len(fetches) = 2
        /\ \A i \in 1..2 : fetches[i].st = "fulfilled" /\ BarePage(fetches[i].data))
       => /\ Responded(200)
          /\ responses[1].body.results = <<>>
          /\ responses[1].body.total = Num(0)
    /\ \A i \in 1..Len(responses) :
          responses[i].status = 200 =>
              /\ responses[i].body.total = Num(Len(responses[i].body.results))
              /\ \/ /\ primary.list = <<>>
                    /\ responses[i].body.results = fallback.list
                 \/ /\ primary.list # <<>>
                    /\ fallback = Pending
                    /\ responses[i].body.results = primary.list

C4_Witness ==
    /\ Responded(200)
    /\ Len(fetches) = 2
    /\ fetches[1].data = PageBadJson
    /\ fetches[2].data = PageNoNode

\* C6: the limit handed to normalizeFromItemModule lies in 1..100: above 100
\* becomes 100, absent or non-numeric becomes 50, zero or below becomes 1.
C6_LimitClamped ==
    NonEmptyQuery =>
        /\ max.t = "number"
        /\ max.n \in 1..MaxLimit
        /\ query.max.t = "undefined" => max.n = DefaultMaxItems
        /\ (query.max.t = "string" /\ ToNumber(query.max).t = "nan") => max.n = DefaultMaxItems
        /\ (query.max.t = "string" /\ ToNumber(query.max).t = "number") =>
               max.n = Max(1, Min(ToNumber(query.max).n, MaxLimit))

\* C10: under fair scheduling every request gets exactly one response, with
\* status 400, 200 or 500, also when normalization raises inside the try.
C10_ExactlyOneResponse ==
    /\ [](/\ Len(responses) <= 1
          /\ \A i \in 1..Len(responses) : responses[i].status \in {400, 200, 500}
          /\ pc = "done" <=> Len(responses) = 1)
    /\ (pc # "idle") ~> (pc = "done" /\ Len(responses) = 1)

C10_Witness ==
    /\ Responded(500)
    /\ primary.error = "RangeError"
    /\ \A i \in 1..Len(fetches) : fetches[i].st = "fulfilled"

----------------------------------------------------------------------------
(* Properties of normalizeFromItemModule (SpecNormalize, SpecItem) *)

Returned == ret.error = "none"

HasCollection == Truthy(sigiIn) /\ Truthy(Get(sigiIn, "ItemModule"))

InItems == IF HasCollection THEN ObjectValues(Get(sigiIn, "ItemModule")) ELSE <<>>

NoEmptyUrl == \A i \in 1..Len(ret.list) : ret.list[i].url # EmptyStr

\* C5 as claimed: for every integer maxItems, negative ones included, the list
\* returned has at most maxItems records and no record with an empty url.
C5_AtMostMaxItems ==
    (Returned /\ maxIn.t = "number") => (Len(ret.list) <= maxIn.n /\ NoEmptyUrl)

\* C5 amended: for maxItems >= 0 the list has at most maxItems records; for
\* maxItems < 0 it has at most (number of items + maxItems) records, none when
\* that is not positive; no record ever has an empty url.
C5_AtMostSliceLength ==
    (Returned /\ maxIn.t = "number") =>
        /\ maxIn.n >= 0 => Len(ret.list) <= maxIn.n
        /\ maxIn.n < 0 => Len(ret.list) <= Max(0, Len(InItems) + maxIn.n)
        /\ NoEmptyUrl

C5_Witness ==
    /\ Returned
    /\ maxIn.t = "number"
    /\ maxIn.n < 0
    /\ Len(ret.list) > 0
    /\ Len(ret.list) < Len(InItems) + maxIn.n

\* C7: normalizeFromItemModule never raises, whatever the parsed state.
C7_NeverRaises == ret.error \in {"none", "pending"}

RECURSIVE RecordsWithUrl(_)
RecordsWithUrl(items) ==
    IF items = <<>> THEN <<>>
    ELSE (IF MapItem(Head(items)).url # EmptyStr THEN <<MapItem(Head(items))>> ELSE <<>>)
         \o RecordsWithUrl(Tail(items))

\* C9: for a state with an item collection and a positive maxItems, the list
\* returned is the records with a url built from the first maxItems items, in
\* order; later items never make up for dropped ones.
C9_TruncateThenFilter ==
    (Returned /\ HasCollection /\ maxIn.t = "number" /\ maxIn.n > 0) =>
        ret.list = RecordsWithUrl(SubSeq(InItems, 1, Min(maxIn.n, Len(InItems))))

C9_Witness ==
    /\ Returned
    /\ maxIn.t = "number"
    /\ maxIn.n > 0
    /\ Len(ret.list) < maxIn.n
    /\ \E i \in (maxIn.n + 1)..Len(InItems) :
           ItemError(InItems[i]) = "none" /\ MapItem(InItems[i]).url # EmptyStr

Present(v) == v.t # "undefined"

FirstPresent(a, b, d) == IF Present(a) THEN a ELSE IF Present(b) THEN b ELSE d

FirstTruthy(a, b, d) == IF Truthy(a) THEN a ELSE IF Truthy(b) THEN b ELSE d

FirstNonNullish(a, b, d) == IF ~Nullish(a) THEN a ELSE IF ~Nullish(b) THEN b ELSE d

CanonicalLink(author, id) ==
    IF author # EmptyStr /\ id # EmptyStr
    THEN Str(<<"https://www.tiktok.com/@">> \o ToStringJS(author)
             \o <<"/video/">> \o ToStringJS(id))
    ELSE EmptyStr

TheItem == InItems[1]

\* C8 as claimed: each field is the first source field that is present (not
\* undefined), whatever its value.
C8_FirstPresentWins ==
    (Returned /\ ret.list # <<>>) =>
        LET it     == TheItem
            id     == FirstPresent(Get(it, "id"), Get(it, "aweme_id"), EmptyStr)
            author == FirstPresent(Get(it, "author"),
                                   Get(Get(it, "authorInfo"), "uniqueId"), EmptyStr)
        IN  /\ ret.list[1].id = id
            /\ ret.list[1].title = FirstPresent(Get(it, "desc"), Get(it, "title"), EmptyStr)
            /\ ret.list[1].url = FirstPresent(Get(it, "shareUrl"), Get(it, "videoUrl"),
                                              CanonicalLink(author, id))
            /\ ret.list[1].stats.likes =
                   FirstPresent(Get(Get(it, "stats"), "diggCount"),
                                Get(Get(it, "stats"), "likeCount"), Null)

\* C8 amended: id, title and url are the first source field that is truthy
\* (url falling back to the link built from the reconciled author and id when
\* both are non-empty), likes is the first of diggCount, likeCount that is
\* neither undefined nor null; a record whose url comes out empty is dropped.
C8_FirstTruthyWins ==
    Returned =>
        LET it     == TheItem
            id     == FirstTruthy(Get(it, "id"), Get(it, "aweme_id"), EmptyStr)
            author == FirstTruthy(Get(it, "author"),
                                  Get(Get(it, "authorInfo"), "uniqueId"), EmptyStr)
            url    == FirstTruthy(Get(it, "shareUrl"), Get(it, "videoUrl"),
                                  CanonicalLink(author, id))
        IN  IF url = EmptyStr THEN ret.list = <<>>
            ELSE /\ Len(ret.list) = 1
                 /\ ret.list[1].id = id
                 /\ ret.list[1].title = FirstTruthy(Get(it, "desc"), Get(it, "title"), EmptyStr)
                 /\ ret.list[1].url = url
                 /\ ret.list[1].stats.likes =
                        FirstNonNullish(Get(Get(it, "stats"), "diggCount"),
                                        Get(Get(it, "stats"), "likeCount"), Null)

C8_Witness ==
    /\ Returned
    /\ Get(TheItem, "id") = Num(0)
    /\ Get(TheItem, "aweme_id") = Text(<<"8">>)
    /\ Get(Get(TheItem, "stats"), "diggCount") = Null
    /\ Len(ret.list) = 1
    /\ ret.list[1].id = Text(<<"8">>)
    /\ ret.list[1].stats.likes = Num(9)

====
